---- MODULE Spec2Model ----
(***************************************************************************)
(* Error handler and escalation system (.taskmaster/error-handler.py).     *)
(*                                                                         *)
(* The model follows class ErrorHandler: the in-memory stores              *)
(* recent_errors and escalated_issues, the three files it writes           *)
(* (errors.log, escalations.log, alerts.json) and the clock it reads.      *)
(* Time is counted in seconds.  A timestamp is kept as the integer the     *)
(* clock returned: isoformat()/fromisoformat() of a naive datetime is an   *)
(* exact round trip, and every timestamp in recent_errors was produced by  *)
(* isoformat() in log_error.                                               *)
(***************************************************************************)
EXTENDS Integers, Sequences, FiniteSets, TLC

(***************************************************************************)
(* Bounds of the model.                                                    *)
(***************************************************************************)
\* calls of log_error by a caller that chooses its arguments freely
MaxCalls == 3
\* calls of log_error by a caller that repeats one pattern of arguments
MaxStream == 103
\* calls of log_error by each of two concurrent callers
CallsEach == 51
\* iterations of the monitor loop
MaxTicks == 2
\* calls of the other public methods by a caller of the handler
MaxApiCalls == 1
\* the number of log_error calls of a repeating caller after which it calls
\* the other public methods
ApiFrom == 100
\* escalating calls of log_error by each of two concurrent callers
EscalationsEach == 1
\* calls of log_error by each of two concurrent callers that record events
\* of the same kind
CrossingCalls == 1
\* the number of calls after which the two callers' steps interleave freely
RaceFrom == 99

(***************************************************************************)
(* Program constants.                                                      *)
(***************************************************************************)
\* if len(self.recent_errors) > 100
MaxRecentErrors == 100
\* if len(alerts) > 50: alerts = alerts[-50:]
MaxAlerts == 50
\* psutil.cpu_percent(interval=1) blocks for one second
CpuSampleInterval == 1

\* class ErrorSeverity
ErrorSeverity == {"low", "medium", "high", "critical"}

\* class ErrorType
ErrorType ==
  {"agent_crash", "resource_exhaustion", "file_conflict", "dependency_failure",
   "task_timeout", "context_drift", "system_overload"}

\* the agents list of get_system_snapshot / monitor_system_health
Agents ==
  <<"agent-prism", "agent-realtime", "agent-auth", "agent-analytics",
    "agent-quality", "agent-review">>

AgentIds == {Agents[i] : i \in DOMAIN Agents}

\* agent_id=None
None == "None"

\* escalation_triggers with the agent_crash threshold one too low
escalation_triggers_crash_twice ==
  [t \in {"agent_crash", "resource_exhaustion", "file_conflict", "system_overload"} |->
     CASE t = "agent_crash" -> [threshold |-> 2, time_window |-> 300]
       [] t = "resource_exhaustion" -> [threshold |-> 2, time_window |-> 120]
       [] t = "file_conflict" -> [threshold |-> 5, time_window |-> 600]
       [] t = "system_overload" -> [threshold |-> 1, time_window |-> 60]]

\* escalation_triggers with a rule for task_timeout as well
escalation_triggers_with_timeout ==
  [t \in {"agent_crash", "resource_exhaustion", "file_conflict", "system_overload",
          "task_timeout"} |->
     CASE t = "agent_crash" -> [threshold |-> 3, time_window |-> 300]
       [] t = "resource_exhaustion" -> [threshold |-> 2, time_window |-> 120]
       [] t = "file_conflict" -> [threshold |-> 5, time_window |-> 600]
       [] t = "system_overload" -> [threshold |-> 1, time_window |-> 60]
       [] t = "task_timeout" -> [threshold |-> 3, time_window |-> 300]]

\* self.escalation_triggers, set in __init__ and never assigned again
escalation_triggers ==
  [t \in {"agent_crash", "resource_exhaustion", "file_conflict", "system_overload"} |->
     CASE t = "agent_crash" -> [threshold |-> 3, time_window |-> 300]
       [] t = "resource_exhaustion" -> [threshold |-> 2, time_window |-> 120]
       [] t = "file_conflict" -> [threshold |-> 5, time_window |-> 600]
       [] t = "system_overload" -> [threshold |-> 1, time_window |-> 60]]

(***************************************************************************)
(* State.                                                                  *)
(***************************************************************************)
VARIABLES
  now,               \* the last value datetime.now() returned
  recent_errors,     \* self.recent_errors
  escalated_issues,  \* self.escalated_issues
  error_log,         \* the lines of ERROR_LOG
  escalation_log,    \* the records of ESCALATION_LOG
  alert_file,        \* alerts.json: [exists, complete, alerts]
  host,              \* what psutil and the pid files report
  unwritable,        \* the files whose open() for writing raises
  history,           \* one record per log_error call, in call order
  appended_alerts,   \* every alert a completed send_escalation_alert wrote
  stream,            \* the pattern of arguments a repeating caller uses
  threads,           \* per caller: where it is in log_error, and its locals
  monitor            \* where monitor_system_health is in its loop

vars ==
  <<now, recent_errors, escalated_issues, error_log, escalation_log,
    alert_file, host, unwritable, history, appended_alerts, stream, threads,
    monitor>>

(***************************************************************************)
(* Pure parts of ErrorHandler.                                             *)
(***************************************************************************)

\* the last n elements of s: s[-n:] for n >= 1
LastN(s, n) == IF Len(s) > n THEN SubSeq(s, Len(s) - n + 1, Len(s)) ELSE s

\* AppendRecent evicting the newest entry: pop() for pop(0)
AppendRecentPopLast(errors, e) ==
  LET appended == Append(errors, e)
  IN IF Len(appended) > MaxRecentErrors
     THEN SubSeq(appended, 1, Len(appended) - 1)
     ELSE appended

\* AppendRecent without the eviction: the list grows with every event
AppendRecentKeepAll(errors, e) == Append(errors, e)

\* self.recent_errors.append(e); if len(...) > 100: self.recent_errors.pop(0)
AppendRecent(errors, e) ==
  LET appended == Append(errors, e)
  IN IF Len(appended) > MaxRecentErrors THEN Tail(appended) ELSE appended

\* the count with a window that is closed at its start
recent_count_closed(errors, error_type, cutoff) ==
  Cardinality({i \in DOMAIN errors :
                 errors[i].type = error_type /\ errors[i].timestamp >= cutoff})

\* sum(1 for err in self.recent_errors if err["type"] == error_type.value
\*       and datetime.fromisoformat(err["timestamp"]) > cutoff)
recent_count(errors, error_type, cutoff) ==
  Cardinality({i \in DOMAIN errors :
                 errors[i].type = error_type /\ errors[i].timestamp > cutoff})

\* should_escalate without the severity test of its first line
should_escalate_by_rule_only(error_type, error_entry, errors, t) ==
  IF error_type \notin DOMAIN escalation_triggers THEN FALSE
  ELSE LET trigger == escalation_triggers[error_type]
           cutoff == t - trigger.time_window
       IN recent_count(errors, error_type, cutoff) >= trigger.threshold

\* should_escalate comparing with > threshold for >= threshold
should_escalate_above_threshold(error_type, error_entry, errors, t) ==
  IF error_entry.severity = "critical" THEN TRUE
  ELSE IF error_type \notin DOMAIN escalation_triggers THEN FALSE
  ELSE LET trigger == escalation_triggers[error_type]
           cutoff == t - trigger.time_window
       IN recent_count(errors, error_type, cutoff) > trigger.threshold

\* should_escalate latched: no escalation by rule for a kind that has an
\* escalated issue already
should_escalate_once_per_kind(error_type, error_entry, errors, t) ==
  IF error_entry.severity = "critical" THEN TRUE
  ELSE IF error_type \notin DOMAIN escalation_triggers THEN FALSE
  ELSE LET trigger == escalation_triggers[error_type]
           cutoff == t - trigger.time_window
       IN /\ recent_count(errors, error_type, cutoff) >= trigger.threshold
          /\ \A k \in DOMAIN escalated_issues :
               escalated_issues[k].original_error.type # error_type

\* should_escalate counting only the events of the new event's agent
should_escalate_per_agent(error_type, error_entry, errors, t) ==
  IF error_entry.severity = "critical" THEN TRUE
  ELSE IF error_type \notin DOMAIN escalation_triggers THEN FALSE
  ELSE LET trigger == escalation_triggers[error_type]
           cutoff == t - trigger.time_window
           own == SelectSeq(errors, LAMBDA e : e.agent_id = error_entry.agent_id)
       IN recent_count(own, error_type, cutoff) >= trigger.threshold

\* should_escalate, evaluated on the store `errors` with datetime.now() = t
should_escalate(error_type, error_entry, errors, t) ==
  IF error_entry.severity = "critical" THEN TRUE
  ELSE IF error_type \notin DOMAIN escalation_triggers THEN FALSE
  ELSE LET trigger == escalation_triggers[error_type]
           cutoff == t - trigger.time_window
       IN recent_count(errors, error_type, cutoff) >= trigger.threshold

\* get_suggested_actions
get_suggested_actions(error_entry) ==
  CASE error_entry.type = "agent_crash" ->
         <<"Check agent logs for specific error messages",
           "Verify system resources are sufficient",
           "Consider reducing agent workload",
           "Check for file permission issues",
           "Restart agent with preserved context">>
    [] error_entry.type = "resource_exhaustion" ->
         <<"Kill non-essential processes",
           "Increase system swap space",
           "Pause some agents temporarily",
           "Monitor memory usage patterns",
           "Consider upgrading hardware">>
    [] error_entry.type = "file_conflict" ->
         <<"Review recent commits for conflicts",
           "Check git status in agent worktrees",
           "Manually resolve merge conflicts",
           "Implement file locking mechanism",
           "Review agent file ownership rules">>
    [] error_entry.type = "dependency_failure" ->
         <<"Check task completion status",
           "Verify dependency chain integrity",
           "Consider alternative dependency paths",
           "Update task status manually if needed",
           "Review agent coordination logic">>
    [] error_entry.type = "system_overload" ->
         <<"Emergency stop all agents",
           "Check system CPU and memory usage",
           "Close unnecessary applications",
           "Restart system if needed",
           "Reduce number of concurrent agents">>
    [] OTHER -> <<"Manual investigation required">>

\* get_system_snapshot taking an agent with a pid file for running
get_system_snapshot_by_pid_file(h, t) ==
  [timestamp |-> t,
   cpu_percent |-> h.cpu_percent,
   memory_percent |-> h.memory_percent,
   disk_usage |-> h.disk_usage,
   active_processes |-> h.active_processes,
   agents |->
     [a \in AgentIds |->
        IF h.pid[a] # "no_file"
        THEN [running |-> TRUE, cpu_percent |-> h.agent_cpu,
              memory_percent |-> h.agent_mem]
        ELSE [running |-> FALSE, cpu_percent |-> 0, memory_percent |-> 0]]]

\* get_system_snapshot, taken when the clock reads t
get_system_snapshot(h, t) ==
  [timestamp |-> t,
   cpu_percent |-> h.cpu_percent,
   memory_percent |-> h.memory_percent,
   disk_usage |-> h.disk_usage,
   active_processes |-> h.active_processes,
   agents |->
     [a \in AgentIds |->
        IF h.pid[a] = "alive"
        THEN [running |-> TRUE, cpu_percent |-> h.agent_cpu,
              memory_percent |-> h.agent_mem]
        ELSE [running |-> FALSE, cpu_percent |-> 0, memory_percent |-> 0]]]

\* get_system_snapshot raises: psutil.cpu_percent or psutil.virtual_memory
\* raises, and nothing in get_system_snapshot or escalate_error catches it
get_system_snapshot_raises(h) == h.broken # {}

\* get_suggested_actions raises: ErrorType(error_entry["type"]) raises
\* ValueError for a string that is not the value of a member
get_suggested_actions_raises(error_entry) == error_entry.type \notin ErrorType

\* self.recent_errors[-count:]: the last count entries for count >= 1;
\* -0 is 0, so the whole list for count = 0; the list without its first
\* -count entries for count < 0
get_recent_errors(errors, count) ==
  IF count > 0 THEN LastN(errors, count)
  ELSE IF count = 0 THEN errors
  ELSE SubSeq(errors, 1 - count, Len(errors))

\* issue with the keys "resolved" and "resolved_at" set
Resolve(issue, t) ==
  [f \in DOMAIN issue \cup {"resolved", "resolved_at"} |->
     IF f = "resolved" THEN TRUE
     ELSE IF f = "resolved_at" THEN t
     ELSE issue[f]]

\* clear_escalated_issue without the test 0 <= issue_id: a negative index
\* counts from the end of the list, as Python's indexing does
clear_escalated_issue_unguarded(issues, issue_id, t) ==
  IF 0 - Len(issues) <= issue_id /\ issue_id < Len(issues)
  THEN LET k == (issue_id % Len(issues)) + 1
       IN [issues EXCEPT ![k] = Resolve(issues[k], t)]
  ELSE issues

\* clear_escalated_issue: if 0 <= issue_id < len(self.escalated_issues)
clear_escalated_issue(issues, issue_id, t) ==
  IF 0 <= issue_id /\ issue_id < Len(issues)
  THEN [issues EXCEPT ![issue_id + 1] = Resolve(issues[issue_id + 1], t)]
  ELSE issues

\* Escalation attaching an edited copy of the event
EscalationOfEditedEvent(error_entry, h, t) ==
  [timestamp |-> t,
   original_error |-> [error_entry EXCEPT !.message = "escalated"],
   escalation_reason |-> "Threshold exceeded or critical severity",
   suggested_actions |-> get_suggested_actions(error_entry),
   system_state |-> get_system_snapshot(h, t)]

\* the escalation record escalate_error builds
Escalation(error_entry, h, t) ==
  [timestamp |-> t,
   original_error |-> error_entry,
   escalation_reason |-> "Threshold exceeded or critical severity",
   suggested_actions |-> get_suggested_actions(error_entry),
   system_state |-> get_system_snapshot(h, t)]

\* send_escalation_alert, "Load existing alerts": a file that json.load
\* cannot parse (empty or cut short) gives [] through the bare except
LoadAlerts(file) == IF file.exists /\ file.complete THEN file.alerts ELSE <<>>

\* NewAlert numbering from the last alert's id
NewAlertAfterLast(alerts, escalation) ==
  [id |-> IF alerts = <<>> THEN 1 ELSE alerts[Len(alerts)].id + 1,
   timestamp |-> escalation.timestamp,
   type |-> "escalation",
   severity |-> "high",
   title |-> <<"Error Escalated: ", escalation.original_error.type>>,
   message |-> escalation.original_error.message,
   details |-> escalation,
   acknowledged |-> FALSE]

\* NewAlert taking the severity of the event:
\* "severity": escalation['original_error']['severity']
NewAlertOfEventSeverity(alerts, escalation) ==
  [id |-> Len(alerts) + 1,
   timestamp |-> escalation.timestamp,
   type |-> "escalation",
   severity |-> escalation.original_error.severity,
   title |-> <<"Error Escalated: ", escalation.original_error.type>>,
   message |-> escalation.original_error.message,
   details |-> escalation,
   acknowledged |-> FALSE]

\* send_escalation_alert, "Add new alert"
NewAlert(alerts, escalation) ==
  [id |-> Len(alerts) + 1,
   timestamp |-> escalation.timestamp,
   type |-> "escalation",
   severity |-> "high",
   title |-> <<"Error Escalated: ", escalation.original_error.type>>,
   message |-> escalation.original_error.message,
   details |-> escalation,
   acknowledged |-> FALSE]

\* KeepAlerts keeping the first 50: alerts[:50] for alerts[-50:]
KeepAlertsFirst(alerts) ==
  IF Len(alerts) > MaxAlerts THEN SubSeq(alerts, 1, MaxAlerts) ELSE alerts

\* send_escalation_alert, "Keep only last 50 alerts"
KeepAlerts(alerts) ==
  IF Len(alerts) > MaxAlerts THEN LastN(alerts, MaxAlerts) ELSE alerts

\* AlertsToSave with the new alert put first: alerts.insert(0, alert) for
\* alerts.append(alert)
AlertsToSaveNewestFirst(file, escalation) ==
  LET alerts == LoadAlerts(file)
  IN KeepAlerts(<<NewAlert(alerts, escalation)>> \o alerts)

\* the list send_escalation_alert dumps to alerts.json
AlertsToSave(file, escalation) ==
  LET alerts == LoadAlerts(file)
  IN KeepAlerts(Append(alerts, NewAlert(alerts, escalation)))

(***************************************************************************)
(* log_error, run by one caller without interruption.  t is what           *)
(* datetime.now() returns for the entry; the clock is read again by        *)
(* should_escalate and escalate_error within the same second, and          *)
(* get_system_snapshot then blocks for the CPU sample.  An open() of a     *)
(* file in `unwritable` raises, and the exception leaves log_error.        *)
(***************************************************************************)
Files == {"error_log", "escalation_log", "alert_file"}

ErrorEntry(t, error_type, severity, message, agent_id) ==
  [timestamp |-> t, type |-> error_type, severity |-> severity,
   message |-> message, agent_id |-> agent_id]

\* stands for a timestamp string that is not in ISO format (the timestamps
\* isoformat() produces are the integers >= 0)
Malformed == -1

\* should_escalate raises: datetime.fromisoformat raises ValueError for a
\* malformed timestamp; it is called, once the severity and rule tests are
\* passed, for the entries whose type is error_type ("and" does not evaluate
\* its right operand for the others)
should_escalate_raises(error_type, error_entry, errors) ==
  /\ error_entry.severity # "critical"
  /\ error_type \in DOMAIN escalation_triggers
  /\ \E i \in DOMAIN errors :
       errors[i].type = error_type /\ errors[i].timestamp = Malformed

LogError(t, error_type, severity, message, agent_id) ==
  LET error_entry == ErrorEntry(t, error_type, severity, message, agent_id)
      errors == AppendRecent(recent_errors, error_entry)
      evaluated == "error_log" \notin unwritable
      raised == evaluated /\ should_escalate_raises(error_type, error_entry, errors)
      decision ==
        evaluated /\ ~raised /\ should_escalate(error_type, error_entry, errors, t)
      escalation == Escalation(error_entry, host, t)
      captured == decision /\ ~get_system_snapshot_raises(host)
      logged == captured /\ "escalation_log" \notin unwritable
      saved == logged /\ "alert_file" \notin unwritable
      alerts == AlertsToSave(alert_file, escalation)
  IN /\ t >= now
     /\ recent_errors' = errors
     /\ error_log' = IF evaluated THEN Append(error_log, error_entry) ELSE error_log
     /\ escalated_issues' =
          IF captured THEN Append(escalated_issues, escalation) ELSE escalated_issues
     /\ escalation_log' =
          IF logged THEN Append(escalation_log, escalation) ELSE escalation_log
     /\ alert_file' =
          IF saved THEN [exists |-> TRUE, complete |-> TRUE, alerts |-> alerts]
          ELSE alert_file
     /\ appended_alerts' =
          IF saved THEN Append(appended_alerts, alerts[Len(alerts)])
          ELSE appended_alerts
     /\ now' = IF decision /\ "cpu" \notin host.broken
               THEN t + CpuSampleInterval ELSE t
     /\ history' =
          Append(history,
                 [entry |-> error_entry, evaluated |-> evaluated, at |-> t,
                  raised |-> raised, decision |-> decision])
     /\ UNCHANGED <<host, unwritable, stream>>

(***************************************************************************)
(* Callers.                                                                *)
(***************************************************************************)
\* seconds between the clock readings of two successive calls
Delays == {100, 400}

\* what the clock may have advanced by when the next call reads it; time is
\* counted from the first call's reading, the code using only differences
NextDelays == IF history = <<>> THEN {0} ELSE Delays

\* the severities a freely choosing caller passes
FreeSeverities == {"high", "critical"}

Messages == {"m"}

IdleHost ==
  [cpu_percent |-> 10, memory_percent |-> 20, disk_usage |-> 30,
   active_processes |-> 0, agent_cpu |-> 5, agent_mem |-> 5,
   pid |-> [a \in AgentIds |-> "no_file"],
   worktree |-> [a \in AgentIds |-> "no_worktree"],
   broken |-> {}]

\* a caller that repeats a pattern: the arguments of its successive calls
Arg(error_type, severity, delay) ==
  [type |-> error_type, severity |-> severity, delay |-> delay]

Patterns ==
  { <<Arg("agent_crash", "medium", 100)>>,
    <<Arg("agent_crash", "medium", 400)>>,
    <<Arg("file_conflict", "medium", 100)>>,
    <<Arg("file_conflict", "medium", 150)>>,
    <<Arg("file_conflict", "medium", 100), Arg("task_timeout", "low", 20)>>,
    <<Arg("resource_exhaustion", "high", 30), Arg("system_overload", "high", 0),
      Arg("resource_exhaustion", "high", 120)>>,
    <<Arg("context_drift", "critical", 30)>>,
    <<Arg("dependency_failure", "low", 0), Arg("agent_crash", "critical", 30)>> }

NoStream == <<>>

\* the threads that call log_error: the one start_error_monitoring starts,
\* and a caller of the module's error_handler
Callers == {"monitor", "external"}

NoEntry == <<>>

\* what a caller holds before any call has returned to it
NoResult == [call |-> "none"]

IdleThread ==
  [pc |-> "idle", calls |-> 0, entry |-> NoEntry, slot |-> 0,
   escalation |-> NoEntry, alerts |-> <<>>, result |-> NoResult]

\* the monitor loop before start_error_monitoring has started it
MonitorOff ==
  [pc |-> "off", agent |-> 0, tick |-> 0, woke |-> 0, first |-> 0,
   failures |-> 0, ran |-> {}, main |-> "running"]

InitStores ==
  /\ threads = [c \in Callers |-> IdleThread]
  /\ monitor = MonitorOff
  /\ now = 0
  /\ recent_errors = <<>>
  /\ escalated_issues = <<>>
  /\ error_log = <<>>
  /\ escalation_log = <<>>
  /\ alert_file = [exists |-> FALSE, complete |-> TRUE, alerts |-> <<>>]
  /\ history = <<>>
  /\ appended_alerts = <<>>

Init ==
  /\ InitStores
  /\ host = IdleHost
  /\ unwritable = {}
  /\ stream \in {NoStream} \cup Patterns

\* a call with freely chosen arguments
Call ==
  /\ stream = NoStream
  /\ Len(history) < MaxCalls
  /\ \E d \in NextDelays, ty \in ErrorType, sev \in FreeSeverities, m \in Messages :
       LogError(now + d, ty, sev, m, None)
  /\ UNCHANGED <<threads, monitor>>

\* the next call of a caller that repeats its pattern
StreamCall ==
  /\ stream # NoStream
  /\ Len(history) < MaxStream
  /\ LET arg == stream[(Len(history) % Len(stream)) + 1]
     IN \E m \in Messages :
          LogError(now + arg.delay, arg.type, arg.severity, m, None)
  /\ UNCHANGED <<threads, monitor>>

Next == Call \/ StreamCall

Spec == Init /\ [][Next]_vars

(***************************************************************************)
(* The same caller in an environment where one of the files cannot be      *)
(* opened for writing.                                                     *)
(***************************************************************************)
FaultyTypes == {"agent_crash", "task_timeout"}

InitIO ==
  /\ InitStores
  /\ host = IdleHost
  /\ unwritable \in {{f} : f \in Files}
  /\ stream = NoStream

CallIO ==
  /\ Len(history) < MaxCalls
  /\ \E d \in NextDelays, ty \in FaultyTypes, sev \in FreeSeverities, m \in Messages :
       LogError(now + d, ty, sev, m, None)
  /\ UNCHANGED <<threads, monitor>>

NextIO == CallIO

SpecIO == InitIO /\ [][NextIO]_vars

(***************************************************************************)
(* A caller that also holds what get_recent_errors returned: the slice is  *)
(* a new list of the same dicts as self.recent_errors, so an assignment to *)
(* a key of one of them changes the stored entry (and the original_error   *)
(* of an escalation made for it, which is that dict again).                *)
(***************************************************************************)
ReaderTypes == {"agent_crash", "task_timeout"}

ReaderSeverities == {"medium", "critical"}

ReaderCall ==
  /\ Len(history) < MaxCalls
  /\ \E d \in NextDelays, ty \in ReaderTypes, sev \in ReaderSeverities, m \in Messages :
       LogError(now + d, ty, sev, m, None)
  /\ UNCHANGED <<threads, monitor>>

\* get_recent_errors()[i]["timestamp"] = a string that is not a timestamp
OverwriteReturnedTimestamp ==
  \E i \in DOMAIN recent_errors :
    /\ recent_errors[i].timestamp # Malformed
    /\ recent_errors' = [recent_errors EXCEPT ![i].timestamp = Malformed]
    /\ escalated_issues' =
         [k \in DOMAIN escalated_issues |->
            IF escalated_issues[k].original_error = recent_errors[i]
            THEN [escalated_issues[k] EXCEPT !.original_error.timestamp = Malformed]
            ELSE escalated_issues[k]]
    /\ UNCHANGED <<now, error_log, escalation_log, alert_file, host, unwritable,
                   history, appended_alerts, stream, threads, monitor>>

InitReader ==
  /\ InitStores
  /\ host = IdleHost
  /\ unwritable = {}
  /\ stream = NoStream

NextReader == ReaderCall \/ OverwriteReturnedTimestamp

SpecReader == InitReader /\ [][NextReader]_vars

(***************************************************************************)
(* A caller of the public methods of the handler: log_error,               *)
(* clear_escalated_issue, get_recent_errors and get_suggested_actions.     *)
(* threads["external"] counts its calls of the last three and holds what   *)
(* the last of them returned.                                              *)
(***************************************************************************)
\* the issue_id arguments the caller passes
IssueIds == {-1, 0, 1, 2}

\* the count arguments the caller passes
Counts == {0, 1, 2, 3}

\* the "type" values of the entries the caller passes
Kinds == ErrorType \cup {"unknown_kind"}

\* patterns of the caller that makes more than 100 log_error calls
ApiPatterns ==
  { <<Arg("agent_crash", "medium", 100)>>,
    <<Arg("context_drift", "critical", 30)>> }

ApiEnabled ==
  /\ threads["external"].calls < MaxApiCalls
  /\ stream = NoStream \/ Len(history) >= ApiFrom

Returned(result) ==
  [threads EXCEPT !["external"].calls = @ + 1, !["external"].result = result]

ApiLogError ==
  /\ stream = NoStream
  /\ Len(history) < MaxCalls
  /\ \E d \in NextDelays, sev \in ReaderSeverities, m \in Messages :
       LogError(now + d, "agent_crash", sev, m, None)
  /\ UNCHANGED <<threads, monitor>>

ApiStreamCall == StreamCall

ClearEscalatedIssue ==
  /\ ApiEnabled
  /\ \E issue_id \in IssueIds :
       /\ escalated_issues' = clear_escalated_issue(escalated_issues, issue_id, now)
       /\ threads' = Returned([call |-> "clear_escalated_issue", issue_id |-> issue_id])
  /\ UNCHANGED <<now, recent_errors, error_log, escalation_log, alert_file, host,
                 unwritable, history, appended_alerts, stream, monitor>>

GetRecentErrors ==
  /\ ApiEnabled
  /\ \E count \in Counts :
       threads' = Returned([call |-> "get_recent_errors", count |-> count,
                            value |-> get_recent_errors(recent_errors, count)])
  /\ UNCHANGED <<now, recent_errors, escalated_issues, error_log, escalation_log,
                 alert_file, host, unwritable, history, appended_alerts, stream,
                 monitor>>

GetSuggestedActions ==
  /\ ApiEnabled
  /\ \E kind \in Kinds, sev \in ReaderSeverities :
       LET error_entry == ErrorEntry(now, kind, sev, "m", None)
           raised == get_suggested_actions_raises(error_entry)
       IN threads' =
            Returned([call |-> "get_suggested_actions", entry |-> error_entry,
                      raised |-> raised,
                      value |-> IF raised THEN <<>>
                                ELSE get_suggested_actions(error_entry)])
  /\ UNCHANGED <<now, recent_errors, escalated_issues, error_log, escalation_log,
                 alert_file, host, unwritable, history, appended_alerts, stream,
                 monitor>>

InitApi ==
  /\ InitStores
  /\ host = IdleHost
  /\ unwritable = {}
  /\ stream \in {NoStream} \cup ApiPatterns

NextApi ==
  \/ ApiLogError
  \/ ApiStreamCall
  \/ ClearEscalatedIssue
  \/ GetRecentErrors
  \/ GetSuggestedActions

SpecApi == InitApi /\ [][NextApi]_vars

(***************************************************************************)
(* Two threads calling log_error on the one error_handler: the monitor     *)
(* thread of start_error_monitoring and an external caller.  The handler   *)
(* takes no lock, so a thread can be preempted between any two statements  *)
(* of log_error; each action below is one statement (or one file           *)
(* operation) of the call a thread is in.                                  *)
(***************************************************************************)
\* seconds the clock advances between a thread's previous step and its
\* reading of the clock
RaceDelays == {0, 1}

\* seconds between two calls that do not overlap: time.sleep(30)
TickInterval == 30
\* time.sleep(60) after an exception in the loop body
BackoffInterval == 60
\* if cpu_percent > 90
CpuThreshold == 90
\* if memory.percent > 85
MemoryThreshold == 85

\* what each thread records
CallerArg(c) ==
  IF c = "monitor"
  THEN [type |-> "agent_crash", severity |-> "medium", agent_id |-> Agents[1]]
  ELSE [type |-> "task_timeout", severity |-> "high", agent_id |-> None]

Started == threads["monitor"].calls + threads["external"].calls

AllIdle == \A c \in Callers : threads[c].pc = "idle"

\* whose call comes next while the calls do not overlap yet
Turn == IF Started % 2 = 0 THEN "monitor" ELSE "external"

Goto(c, label) == [threads EXCEPT ![c].pc = label]

\* a whole call of log_error that no step of the other thread interrupts
WholeCall(c) ==
  /\ AllIdle
  /\ Started < RaceFrom
  /\ c = Turn
  /\ threads[c].calls < CallsEach
  /\ \E m \in Messages :
       LogError(now + TickInterval, CallerArg(c).type, CallerArg(c).severity, m,
                CallerArg(c).agent_id)
  /\ threads' = [threads EXCEPT ![c].calls = @ + 1]
  /\ UNCHANGED monitor

\* log_error, "error_entry = {...}": the clock is read for the timestamp
Begin(c) ==
  /\ threads[c].pc = "idle"
  /\ Started >= RaceFrom
  /\ threads[c].calls < CallsEach
  /\ \E d \in RaceDelays, m \in Messages :
       /\ now' = now + d
       /\ threads' =
            [threads EXCEPT
               ![c].pc = "append",
               ![c].calls = @ + 1,
               ![c].entry =
                 ErrorEntry(now + d, CallerArg(c).type, CallerArg(c).severity, m,
                            CallerArg(c).agent_id)]
  /\ UNCHANGED <<recent_errors, escalated_issues, error_log, escalation_log,
                 alert_file, host, unwritable, history, appended_alerts, stream, monitor>>

\* self.recent_errors.append(error_entry)
DoAppend(c) ==
  /\ threads[c].pc = "append"
  /\ recent_errors' = Append(recent_errors, threads[c].entry)
  /\ history' =
       Append(history,
              [entry |-> threads[c].entry, evaluated |-> FALSE, at |-> 0,
               raised |-> FALSE,
               decision |-> FALSE])
  /\ threads' = [threads EXCEPT ![c].pc = "check", ![c].slot = Len(history) + 1]
  /\ UNCHANGED <<now, escalated_issues, error_log, escalation_log, alert_file,
                 host, unwritable, appended_alerts, stream, monitor>>

\* if len(self.recent_errors) > 100:
CheckLen(c) ==
  /\ threads[c].pc = "check"
  /\ threads' =
       Goto(c, IF Len(recent_errors) > MaxRecentErrors THEN "pop" ELSE "write")
  /\ UNCHANGED <<now, recent_errors, escalated_issues, error_log, escalation_log,
                 alert_file, host, unwritable, history, appended_alerts, stream, monitor>>

\* self.recent_errors.pop(0)
Pop(c) ==
  /\ threads[c].pc = "pop"
  /\ recent_errors' = Tail(recent_errors)
  /\ threads' = Goto(c, "write")
  /\ UNCHANGED <<now, escalated_issues, error_log, escalation_log, alert_file,
                 host, unwritable, history, appended_alerts, stream, monitor>>

\* with open(ERROR_LOG, 'a') as f: f.write(json.dumps(error_entry) + "\n")
WriteErrorLog(c) ==
  /\ threads[c].pc = "write"
  /\ IF "error_log" \in unwritable
     THEN /\ threads' = Goto(c, "idle")
          /\ UNCHANGED error_log
     ELSE /\ threads' = Goto(c, "evaluate")
          /\ error_log' = Append(error_log, threads[c].entry)
  /\ UNCHANGED <<now, recent_errors, escalated_issues, escalation_log, alert_file,
                 host, unwritable, history, appended_alerts, stream, monitor>>

\* Evaluate with a policy that consumes what it counted: on a decision to
\* escalate the events of the kind are dropped from the store
EvaluateAndForget(c) ==
  /\ threads[c].pc = "evaluate"
  /\ LET decision ==
           should_escalate(threads[c].entry.type, threads[c].entry, recent_errors, now)
     IN /\ history' =
             [history EXCEPT ![threads[c].slot].evaluated = TRUE,
                             ![threads[c].slot].at = now,
                             ![threads[c].slot].decision = decision]
        /\ recent_errors' =
             IF decision
             THEN SelectSeq(recent_errors, LAMBDA e : e.type # threads[c].entry.type)
             ELSE recent_errors
        /\ threads' = Goto(c, IF decision THEN "escalate" ELSE "idle")
  /\ UNCHANGED <<now, escalated_issues, error_log, escalation_log,
                 alert_file, host, unwritable, appended_alerts, stream, monitor>>

\* Evaluate with a policy that leaves the newest event of the store out of
\* its count: self.recent_errors[:-1] for self.recent_errors
EvaluateWithoutNewest(c) ==
  /\ threads[c].pc = "evaluate"
  /\ LET decision ==
           should_escalate(threads[c].entry.type, threads[c].entry,
                           SubSeq(recent_errors, 1, Len(recent_errors) - 1), now)
     IN /\ history' =
             [history EXCEPT ![threads[c].slot].evaluated = TRUE,
                             ![threads[c].slot].at = now,
                             ![threads[c].slot].decision = decision]
        /\ threads' = Goto(c, IF decision THEN "escalate" ELSE "idle")
  /\ UNCHANGED <<now, recent_errors, escalated_issues, error_log, escalation_log,
                 alert_file, host, unwritable, appended_alerts, stream, monitor>>

\* if self.should_escalate(error_type, error_entry):
Evaluate(c) ==
  /\ threads[c].pc = "evaluate"
  /\ LET decision ==
           should_escalate(threads[c].entry.type, threads[c].entry, recent_errors, now)
     IN /\ history' =
             [history EXCEPT ![threads[c].slot].evaluated = TRUE,
                             ![threads[c].slot].at = now,
                             ![threads[c].slot].decision = decision]
        /\ threads' = Goto(c, IF decision THEN "escalate" ELSE "idle")
  /\ UNCHANGED <<now, recent_errors, escalated_issues, error_log, escalation_log,
                 alert_file, host, unwritable, appended_alerts, stream, monitor>>

\* escalate_error up to the write of ESCALATION_LOG
RecordEscalation(c) ==
  /\ threads[c].pc = "escalate"
  /\ LET escalation == Escalation(threads[c].entry, host, now)
     IN /\ escalated_issues' = Append(escalated_issues, escalation)
        /\ now' = now + CpuSampleInterval
        /\ IF "escalation_log" \in unwritable
           THEN /\ threads' = Goto(c, "idle")
                /\ UNCHANGED escalation_log
           ELSE /\ threads' =
                     [threads EXCEPT ![c].pc = "load", ![c].escalation = escalation]
                /\ escalation_log' = Append(escalation_log, escalation)
  /\ UNCHANGED <<recent_errors, error_log, alert_file, host, unwritable, history,
                 appended_alerts, stream, monitor>>

\* send_escalation_alert, "Load existing alerts"
LoadAlertFile(c) ==
  /\ threads[c].pc = "load"
  /\ threads' = [threads EXCEPT ![c].pc = "save", ![c].alerts = LoadAlerts(alert_file)]
  /\ UNCHANGED <<now, recent_errors, escalated_issues, error_log, escalation_log,
                 alert_file, host, unwritable, history, appended_alerts, stream, monitor>>

\* send_escalation_alert, open(alert_file, 'w'): the file is cut to length 0
\* before anything is written to it
OpenAlertFile(c) ==
  /\ threads[c].pc = "save"
  /\ IF "alert_file" \in unwritable
     THEN /\ threads' = [threads EXCEPT ![c].pc = "idle", ![c].escalation = NoEntry,
                                        ![c].alerts = <<>>]
          /\ UNCHANGED alert_file
     ELSE /\ threads' = Goto(c, "dump")
          /\ alert_file' = [exists |-> TRUE, complete |-> FALSE, alerts |-> <<>>]
  /\ UNCHANGED <<now, recent_errors, escalated_issues, error_log, escalation_log,
                 host, unwritable, history, appended_alerts, stream, monitor>>

\* send_escalation_alert, json.dump(alerts, f) and the close of the file:
\* the list built from the alerts this thread loaded is all the file holds
SaveAlertFile(c) ==
  /\ threads[c].pc = "dump"
  /\ LET alert == NewAlert(threads[c].alerts, threads[c].escalation)
         alerts == KeepAlerts(Append(threads[c].alerts, alert))
     IN /\ alert_file' = [exists |-> TRUE, complete |-> TRUE, alerts |-> alerts]
        /\ appended_alerts' = Append(appended_alerts, alert)
  /\ threads' = [threads EXCEPT ![c].pc = "idle", ![c].escalation = NoEntry,
                                ![c].alerts = <<>>]
  /\ UNCHANGED <<now, recent_errors, escalated_issues, error_log, escalation_log,
                 host, unwritable, history, stream, monitor>>

InitRace ==
  /\ InitStores
  /\ host = IdleHost
  /\ unwritable = {}
  /\ stream = NoStream

NextRace ==
  \E c \in Callers :
    \/ WholeCall(c)
    \/ Begin(c)
    \/ DoAppend(c)
    \/ CheckLen(c)
    \/ Pop(c)
    \/ WriteErrorLog(c)
    \/ Evaluate(c)
    \/ RecordEscalation(c)
    \/ LoadAlertFile(c)
    \/ OpenAlertFile(c)
    \/ SaveAlertFile(c)

SpecRace == InitRace /\ [][NextRace]_vars

(***************************************************************************)
(* The same two threads when every call of both escalates: the monitor     *)
(* thread records system_overload/high (its CPU check; the rule's          *)
(* threshold is 1) and the external caller a critical event.  Their steps  *)
(* interleave freely from the first call on.                               *)
(***************************************************************************)
EscalatingArg(c) ==
  IF c = "monitor"
  THEN [type |-> "system_overload", severity |-> "high", agent_id |-> None]
  ELSE [type |-> "dependency_failure", severity |-> "critical", agent_id |-> None]

\* log_error, "error_entry = {...}", for a call that will escalate
BeginEscalating(c) ==
  /\ threads[c].pc = "idle"
  /\ threads[c].calls < EscalationsEach
  /\ \E d \in RaceDelays, m \in Messages :
       /\ now' = now + d
       /\ threads' =
            [threads EXCEPT
               ![c].pc = "append",
               ![c].calls = @ + 1,
               ![c].entry =
                 ErrorEntry(now + d, EscalatingArg(c).type, EscalatingArg(c).severity,
                            m, EscalatingArg(c).agent_id)]
  /\ UNCHANGED <<recent_errors, escalated_issues, error_log, escalation_log,
                 alert_file, host, unwritable, history, appended_alerts, stream,
                 monitor>>

NextEscalate ==
  \E c \in Callers :
    \/ BeginEscalating(c)
    \/ DoAppend(c)
    \/ CheckLen(c)
    \/ WriteErrorLog(c)
    \/ Evaluate(c)
    \/ RecordEscalation(c)
    \/ LoadAlertFile(c)
    \/ OpenAlertFile(c)
    \/ SaveAlertFile(c)

SpecEscalate == InitRace /\ [][NextEscalate]_vars

(***************************************************************************)
(* The two escalating threads when alerts.json already holds an alert: one *)
(* escalating call is made and returns before the threads start, as a      *)
(* caller does that reports a critical event before the monitor loop's     *)
(* first CPU alarm.                                                        *)
(***************************************************************************)
\* log_error(..., CRITICAL, ...) run to its end while no other call is on
EarlierEscalation ==
  /\ history = <<>>
  /\ AllIdle
  /\ \E m \in Messages : LogError(now, "context_drift", "critical", m, None)
  /\ UNCHANGED <<threads, monitor>>

NextAppend ==
  \/ EarlierEscalation
  \/ history # <<>> /\ NextEscalate

SpecAppend == InitRace /\ [][NextAppend]_vars

(***************************************************************************)
(* The two threads when both record non-critical agent_crash events: the   *)
(* monitor thread for a dead agent, the external caller for a crash it     *)
(* saw itself.  Before their calls overlap the external caller has made    *)
(* one call that returned: with an agent_crash event the store then holds  *)
(* one event of the kind and the two new ones make the rule's three, with  *)
(* a task_timeout event they do not.                                       *)
(***************************************************************************)
CrossingArg(c) ==
  [type |-> "agent_crash", severity |-> "medium",
   agent_id |-> IF c = "monitor" THEN Agents[1] ELSE None]

\* seconds the clock advances before a thread reads it for its event: the
\* events of the two threads and the earlier one are a second or two apart
CrossingDelays == {1}

EarlierTypes == {"agent_crash", "task_timeout"}

\* log_error run to its end while no other call is on
EarlierCall ==
  /\ history = <<>>
  /\ AllIdle
  /\ \E ty \in EarlierTypes, m \in Messages : LogError(now, ty, "medium", m, None)
  /\ UNCHANGED <<threads, monitor>>

\* log_error, "error_entry = {...}", for an agent_crash event
BeginCrossing(c) ==
  /\ history # <<>>
  /\ threads[c].pc = "idle"
  /\ threads[c].calls < CrossingCalls
  /\ \E d \in CrossingDelays, m \in Messages :
       /\ now' = now + d
       /\ threads' =
            [threads EXCEPT
               ![c].pc = "append",
               ![c].calls = @ + 1,
               ![c].entry =
                 ErrorEntry(now + d, CrossingArg(c).type, CrossingArg(c).severity,
                            m, CrossingArg(c).agent_id)]
  /\ UNCHANGED <<recent_errors, escalated_issues, error_log, escalation_log,
                 alert_file, host, unwritable, history, appended_alerts, stream,
                 monitor>>

NextCrossing ==
  \/ EarlierCall
  \/ \E c \in Callers :
       \/ BeginCrossing(c)
       \/ DoAppend(c)
       \/ CheckLen(c)
       \/ WriteErrorLog(c)
       \/ Evaluate(c)
       \/ RecordEscalation(c)
       \/ LoadAlertFile(c)
       \/ OpenAlertFile(c)
       \/ SaveAlertFile(c)

SpecCrossing == InitRace /\ [][NextCrossing]_vars

(***************************************************************************)
(* monitor_system_health: the loop of the monitor thread.  One action is   *)
(* one check of the loop body, the whole log_error call it makes included. *)
(* host says what the probes of a tick find: cpu_percent, memory_percent,  *)
(* per agent the state of its pid file (no_file, alive, dead, garbage: the *)
(* file does not hold an integer, unreadable: open() raises) and of its    *)
(* worktree (no_worktree, clean, conflicts, git_error: git exits with a    *)
(* non-zero code, git_raises: subprocess.run raises, hang: git never       *)
(* returns), and in `broken` the psutil probes that raise.                 *)
(***************************************************************************)
HostWith(cpu, mem, pids, worktrees, broken) ==
  [IdleHost EXCEPT !.cpu_percent = cpu, !.memory_percent = mem,
     !.pid = [a \in AgentIds |->
                IF \E i \in DOMAIN pids : Agents[i] = a
                THEN pids[CHOOSE i \in DOMAIN pids : Agents[i] = a] ELSE "no_file"],
     !.worktree = [a \in AgentIds |->
                IF \E i \in DOMAIN worktrees : Agents[i] = a
                THEN worktrees[CHOOSE i \in DOMAIN worktrees : Agents[i] = a]
                ELSE "no_worktree"],
     !.broken = broken]

\* every check finds something to report
BusyHost ==
  HostWith(95, 90, <<"dead", "alive", "dead", "dead">>,
           <<"conflicts", "clean", "conflicts">>, {})

\* utilisation exactly at the thresholds, every agent alive and clean
QuietHost ==
  HostWith(90, 85, <<"alive", "alive", "alive", "alive", "alive", "alive">>,
           <<"clean", "clean", "clean", "clean", "clean", "clean">>, {})

MonitorHosts ==
  { BusyHost,
    QuietHost,
    HostWith(10, 90, <<"dead">>, <<"conflicts">>, {"cpu"}),
    HostWith(95, 20, <<"dead", "dead">>, <<"clean", "conflicts">>, {"memory"}),
    HostWith(91, 86, <<"garbage", "dead", "unreadable">>,
             <<"git_error", "git_raises", "conflicts">>, {}),
    HostWith(10, 20, <<"dead", "dead", "dead", "dead", "dead", "dead">>,
             <<"clean", "clean", "clean", "clean", "clean", "clean">>, {}),
    HostWith(95, 20, <<"alive">>, <<"conflicts", "hang", "conflicts">>, {}) }

\* what the host can have become when the loop wakes
WakeHosts == {BusyHost, QuietHost}

\* the checks of one iteration
AllChecks ==
  {<<"cpu", 0>>, <<"memory", 0>>}
    \cup {<<"agents", i>> : i \in DOMAIN Agents}
    \cup {<<"conflicts", i>> : i \in DOMAIN Agents}

\* the loops over the agents list in reverse
AgentAtReversed(i) == Agents[Len(Agents) + 1 - i]

\* for agent in agents: the agent of the i-th iteration
AgentAt(i) == Agents[i]

\* a handler that ends the loop
OnExceptionExit(m) == [m EXCEPT !.pc = "stopped"]

\* except Exception as e: print(...); time.sleep(60)
OnException(m) == [m EXCEPT !.pc = "backoff"]

\* the log_error call just made raised: open(ERROR_LOG) failed, or it
\* escalated and open(ESCALATION_LOG) or open(alert_file) failed
LogErrorRaised ==
  LET h == history'[Len(history')]
  IN \/ ~h.evaluated
     \/ h.raised
     \/ h.decision /\ get_system_snapshot_raises(host)
     \/ h.decision /\ {"escalation_log", "alert_file"} \cap unwritable # {}

\* a step of the monitor that calls nothing of the handler
NoCall ==
  UNCHANGED <<recent_errors, escalated_issues, error_log, escalation_log,
              alert_file, host, unwritable, history, appended_alerts, stream>>

\* the monitor after the check `check`, having met `failed` failures
Checked(check, failed) ==
  [monitor EXCEPT !.ran = @ \cup {check}, !.failures = @ + failed]

\* monitor_thread.start(): the first iteration begins
StartMonitoring ==
  /\ monitor.pc = "off"
  /\ monitor' = [monitor EXCEPT !.pc = "cpu", !.tick = 1,
                                !.first = Len(recent_errors), !.ran = {}]
  /\ now' = now
  /\ NoCall
  /\ UNCHANGED threads

\* cpu_percent = psutil.cpu_percent(interval=1); if cpu_percent > 90: log_error
CpuCheck ==
  /\ monitor.pc = "cpu"
  /\ IF "cpu" \in host.broken
     THEN /\ monitor' = OnException(Checked(<<"cpu", 0>>, 1))
          /\ now' = now
          /\ NoCall
     ELSE IF host.cpu_percent > CpuThreshold
     THEN /\ LogError(now + CpuSampleInterval, "system_overload", "high",
                      "CPU usage critically high", None)
          /\ monitor' = IF LogErrorRaised
                        THEN OnException(Checked(<<"cpu", 0>>, 1))
                        ELSE [Checked(<<"cpu", 0>>, 0) EXCEPT !.pc = "memory"]
     ELSE /\ monitor' = [Checked(<<"cpu", 0>>, 0) EXCEPT !.pc = "memory"]
          /\ now' = now + CpuSampleInterval
          /\ NoCall
  /\ UNCHANGED threads

\* memory = psutil.virtual_memory(); if memory.percent > 85: log_error
MemoryCheck ==
  /\ monitor.pc = "memory"
  /\ IF "memory" \in host.broken
     THEN /\ monitor' = OnException(Checked(<<"memory", 0>>, 1))
          /\ now' = now
          /\ NoCall
     ELSE IF host.memory_percent > MemoryThreshold
     THEN /\ LogError(now, "resource_exhaustion", "high",
                      "Memory usage critically high", None)
          /\ monitor' = IF LogErrorRaised
                        THEN OnException(Checked(<<"memory", 0>>, 1))
                        ELSE [Checked(<<"memory", 0>>, 0) EXCEPT
                                !.pc = "agents", !.agent = 1]
     ELSE /\ monitor' = [Checked(<<"memory", 0>>, 0) EXCEPT
                           !.pc = "agents", !.agent = 1]
          /\ now' = now
          /\ NoCall
  /\ UNCHANGED threads

\* one iteration of "for agent in agents" of the liveness check; its bare
\* except swallows what int() and log_error raise
AgentCheck ==
  /\ monitor.pc = "agents"
  /\ LET i == monitor.agent
         agent == AgentAt(i)
         goes == IF i < Len(Agents) THEN [pc |-> "agents", agent |-> i + 1]
                 ELSE [pc |-> "conflicts", agent |-> 1]
     IN IF host.pid[agent] = "dead"
        THEN /\ LogError(now, "agent_crash", "medium", "Agent process crashed", agent)
             /\ monitor' = [Checked(<<"agents", i>>, IF LogErrorRaised THEN 1 ELSE 0)
                              EXCEPT !.pc = goes.pc, !.agent = goes.agent]
        ELSE /\ monitor' = [Checked(<<"agents", i>>,
                                    IF host.pid[agent] \in {"garbage", "unreadable"}
                                    THEN 1 ELSE 0)
                              EXCEPT !.pc = goes.pc, !.agent = goes.agent]
             /\ now' = now
             /\ NoCall
  /\ UNCHANGED threads

\* one iteration of "for agent in agents" of check_file_conflicts; git has
\* no timeout, and the bare except swallows what subprocess.run and
\* log_error raise.  After the last agent: time.sleep(30)
ConflictCheck ==
  /\ monitor.pc = "conflicts"
  /\ LET i == monitor.agent
         agent == AgentAt(i)
         goes == IF i < Len(Agents) THEN [pc |-> "conflicts", agent |-> i + 1]
                 ELSE [pc |-> "sleep", agent |-> 0]
     IN /\ host.worktree[agent] # "hang"
        /\ IF host.worktree[agent] = "conflicts"
           THEN /\ LogError(now, "file_conflict", "medium", "Git conflicts detected",
                            agent)
                /\ monitor' = [Checked(<<"conflicts", i>>,
                                       IF LogErrorRaised THEN 1 ELSE 0)
                                 EXCEPT !.pc = goes.pc, !.agent = goes.agent]
           ELSE /\ monitor' = [Checked(<<"conflicts", i>>,
                                       IF host.worktree[agent] \in {"git_error", "git_raises"}
                                       THEN 1 ELSE 0)
                                 EXCEPT !.pc = goes.pc, !.agent = goes.agent]
                /\ now' = now
                /\ NoCall
  /\ UNCHANGED threads

\* the next iteration begins, `delay` seconds after the last one ended
NextTick(delay) ==
  /\ monitor.tick < MaxTicks
  /\ now' = now + delay
  /\ \E h \in {host} \cup WakeHosts : host' = h
  /\ monitor' = [monitor EXCEPT !.pc = "cpu", !.tick = @ + 1, !.woke = delay,
                                !.first = Len(recent_errors), !.ran = {}]
  /\ UNCHANGED <<recent_errors, escalated_issues, error_log, escalation_log,
                 alert_file, unwritable, history, appended_alerts, stream, threads>>

\* time.sleep(30) returns
Sleep == monitor.pc = "sleep" /\ NextTick(TickInterval)

\* time.sleep(60) returns
Backoff == monitor.pc = "backoff" /\ NextTick(BackoffInterval)

InitMonitor ==
  /\ InitStores
  /\ host \in MonitorHosts
  /\ unwritable \in {{}} \cup {{f} : f \in Files}
  /\ stream = NoStream

NextMonitor ==
  \/ StartMonitoring
  \/ CpuCheck
  \/ MemoryCheck
  \/ AgentCheck
  \/ ConflictCheck
  \/ Sleep
  \/ Backoff

SpecMonitor == InitMonitor /\ [][NextMonitor]_vars

\* the thread is scheduled: a step of the loop that can be taken is taken
SpecMonitorFair == SpecMonitor /\ WF_vars(NextMonitor)

(***************************************************************************)
(* The script run as __main__: the main thread starts the monitor thread   *)
(* and sleeps in "while True: time.sleep(60)" until KeyboardInterrupt.     *)
(* The monitor is a daemon thread that nothing joins or signals: it runs   *)
(* on until the interpreter exits.                                         *)
(***************************************************************************)
\* except KeyboardInterrupt: print("Error handler stopped")
Interrupt ==
  /\ monitor.pc # "off"
  /\ monitor.main = "running"
  /\ monitor' = [monitor EXCEPT !.main = "interrupted"]
  /\ now' = now
  /\ NoCall
  /\ UNCHANGED threads

\* the main thread runs off the end of the script; the interpreter exits
\* and ends the daemon thread wherever it is
Exit ==
  /\ monitor.main = "interrupted"
  /\ monitor' = [monitor EXCEPT !.main = "exited", !.pc = "exited"]
  /\ now' = now
  /\ NoCall
  /\ UNCHANGED threads

NextMain == NextMonitor \/ Interrupt \/ Exit

SpecMain == InitMonitor /\ [][NextMain]_vars

(***************************************************************************)
(* Properties.                                                             *)
(***************************************************************************)
Min(a, b) == IF a < b THEN a ELSE b

\* the last Min(n, Len(s)) elements of s, in the order of s
Suffix(s, n) ==
  LET k == Min(n, Len(s))
  IN [i \in 1..k |-> s[Len(s) - k + i]]

\* the events recorded so far, in call order
Recorded == [i \in DOMAIN history |-> history[i].entry]

\* the calls whose policy decision was true, in call order
Escalating == SelectSeq(history, LAMBDA h : h.decision)

NoRuleTypes == {"dependency_failure", "task_timeout", "context_drift"}

\* C1: whenever the policy is evaluated for an event of severity critical,
\* the decision is to escalate, for every kind, with or without a rule for
\* the kind, and whatever the store holds.
C1_CriticalAlwaysEscalates ==
  \A i \in DOMAIN history :
    (history[i].evaluated /\ history[i].entry.severity = "critical")
      => history[i].decision

\* a critical event of a kind without a rule, recorded after other events,
\* was escalated
C1_Witness ==
  \E i \in DOMAIN history :
    /\ i > 1
    /\ history[i].entry.severity = "critical"
    /\ history[i].entry.type \notin DOMAIN escalation_triggers
    /\ history[i].decision
    /\ Len(escalated_issues) >= 1

\* the number of events of the store of the given kind whose timestamp lies
\* in the window of the given length that ends at time t
InWindow(kind, length, t) ==
  Cardinality({j \in DOMAIN recent_errors :
                 /\ recent_errors[j].type = kind
                 /\ recent_errors[j].timestamp > t - length
                 /\ recent_errors[j].timestamp <= t})

\* C2: after a log_error call for a non-critical event of a kind that has a
\* rule, the event just recorded is in the store, and the call escalated
\* exactly when the store holds at least `threshold` events of that kind
\* with a timestamp in the trailing window, the new event included.
C2_ThresholdDecidesEscalation ==
  history # <<>> =>
    LET h == history[Len(history)]
        kind == h.entry.type
    IN (h.evaluated /\ h.entry.severity # "critical"
          /\ kind \in {"agent_crash", "resource_exhaustion", "file_conflict",
                       "system_overload"})
         => /\ recent_errors # <<>>
            /\ recent_errors[Len(recent_errors)] = h.entry
            /\ h.decision <=>
                 InWindow(kind,
                          CASE kind = "agent_crash" -> 300
                            [] kind = "resource_exhaustion" -> 120
                            [] kind = "file_conflict" -> 600
                            [] kind = "system_overload" -> 60,
                          h.at)
                   >= (CASE kind = "agent_crash" -> 3
                         [] kind = "resource_exhaustion" -> 2
                         [] kind = "file_conflict" -> 5
                         [] kind = "system_overload" -> 1)

\* the fifth file_conflict event within the window escalated, while the
\* store also holds events of another kind
C2_Witness ==
  /\ Len(history) >= 5
  /\ history[Len(history)].entry.type = "file_conflict"
  /\ history[Len(history)].entry.severity = "medium"
  /\ history[Len(history)].decision
  /\ ~history[Len(history) - 1].decision
  /\ \E j \in DOMAIN recent_errors : recent_errors[j].type # "file_conflict"

\* the first k calls recorded non-critical agent_crash events, `gap` seconds
\* apart, into the initially empty store
CrashesSpaced(k, gap) ==
  /\ Len(history) >= k
  /\ \A i \in 1..k :
       /\ history[i].evaluated
       /\ history[i].entry.type = "agent_crash"
       /\ history[i].entry.severity # "critical"
       /\ history[i].entry.timestamp = history[1].entry.timestamp + (i - 1) * gap

\* C3: with an initially empty store, of three non-critical agent_crash
\* events recorded 100 seconds apart (t = 0, 100, 200) the third is escalated
\* and the first two are not; of three recorded 400 seconds apart
\* (t = 0, 400, 800) none is escalated.
C3_CrashWindowExample ==
  \A k \in 1..3 :
    /\ CrashesSpaced(k, 100) => (history[k].decision <=> k = 3)
    /\ CrashesSpaced(k, 400) => ~history[k].decision

\* three agent_crash events 100 seconds apart were recorded and the third
\* was escalated
C3_Witness ==
  /\ CrashesSpaced(3, 100)
  /\ history[3].decision
  /\ Len(escalated_issues) = 1

\* C4: an event of kind dependency_failure, task_timeout or context_drift is
\* escalated if and only if its severity is critical, however many events of
\* that kind the store holds.
C4_NoRuleOnlyCritical ==
  \A i \in DOMAIN history :
    (history[i].evaluated /\ history[i].entry.type \in NoRuleTypes)
      => (history[i].decision <=> history[i].entry.severity = "critical")

\* a third non-critical task_timeout event in a row was not escalated
C4_Witness ==
  /\ Len(history) >= 3
  /\ \A i \in 1..3 :
       /\ history[i].entry.type = "task_timeout"
       /\ history[i].entry.severity = "high"
       /\ ~history[i].decision
  /\ Len(recent_errors) = 3

\* C5: the store holds at most 100 events, and they are the last
\* min(k, 100) of the k events recorded so far, in the order recorded.
C5_RecentErrorsAreNewest ==
  /\ Len(recent_errors) <= 100
  /\ recent_errors = Suffix(Recorded, 100)

\* more than 100 events were recorded
C5_Witness ==
  /\ Len(history) > 100
  /\ Len(recent_errors) = 100
  /\ recent_errors[1] # history[1].entry

\* C6: the persisted alert list holds at most 50 alerts, and they are the
\* last min(k, 50) of the k alerts appended so far, in the order appended.
C6_AlertsAreNewest ==
  /\ Len(alert_file.alerts) <= 50
  /\ alert_file.alerts = Suffix(appended_alerts, 50)

\* more than 50 alerts were appended
C6_Witness ==
  /\ Len(appended_alerts) > 50
  /\ Len(alert_file.alerts) = 50
  /\ alert_file.alerts[1] # appended_alerts[1]

\* C7: every log_error call whose policy decision is true adds exactly one
\* escalated issue and exactly one alert, and the alert's
\* details.original_error is the event the call recorded, also when a file
\* cannot be written.
C7_OneAlertPerEscalation ==
  /\ Len(escalated_issues) = Len(Escalating)
  /\ Len(appended_alerts) = Len(Escalating)
  /\ \A k \in DOMAIN appended_alerts :
       k \in DOMAIN Escalating =>
         appended_alerts[k].details.original_error = Escalating[k].entry

\* C8: no two alerts ever appended have the same id.
C8_AlertIdsUnique ==
  \A i, j \in DOMAIN appended_alerts :
    i # j => appended_alerts[i].id # appended_alerts[j].id

\* C9: an append gives the new alert the id (length of the list it loaded)
\* + 1, and every alert it keeps is an alert of the loaded list, unchanged
\* and in the same order.
C9_IdIsLoadedLengthPlusOne ==
  [][alert_file' # alert_file =>
       LET old == LoadAlerts(alert_file)
           new == alert_file'.alerts
       IN /\ new # <<>>
          /\ new[Len(new)].id = Len(old) + 1
          /\ SubSeq(new, 1, Len(new) - 1) = Suffix(old, Len(new) - 1)
          /\ Len(new) = Min(Len(old) + 1, 50)]_vars

\* an append has truncated the list: its first alert is no longer alert 1
C9_Witness ==
  /\ Len(alert_file.alerts) = 50
  /\ alert_file.alerts[1].id = 2
  /\ alert_file.alerts[50].id = 51

\* both callers have made all their calls and are out of log_error
RaceOver ==
  \A c \in Callers : threads[c].pc = "idle" /\ threads[c].calls = CallsEach

\* C10: when two concurrent callers have each recorded N events, the store
\* holds min(2N, 100) events, and they are the last min(2N, 100) of the
\* events recorded: none is missing but the oldest beyond the bound of 100.
C10_ConcurrentRecordKeepsNewest ==
  RaceOver =>
    /\ Len(recent_errors) = Min(2 * CallsEach, 100)
    /\ recent_errors = Suffix(Recorded, 100)

\* both callers have made all their escalating calls and are out of log_error
EscalationsOver ==
  \A c \in Callers : threads[c].pc = "idle" /\ threads[c].calls = EscalationsEach

\* C11: when two callers have escalated concurrently, every alert either of
\* them appended is in the persisted list (fewer than 50 were appended), and
\* the file holds a complete list.
C11_NoAlertLostConcurrently ==
  EscalationsOver =>
    /\ alert_file.exists /\ alert_file.complete
    /\ Len(alert_file.alerts) = Len(appended_alerts)
    /\ \A k \in DOMAIN appended_alerts :
         \E j \in DOMAIN alert_file.alerts : alert_file.alerts[j] = appended_alerts[k]

\* C12: whenever the alert file exists it holds a complete list, the one
\* before an append or the one after it: a reader never finds it empty or
\* partly written.
C12_AlertFileAlwaysComplete ==
  alert_file.exists => alert_file.complete

\* C15: when the error log cannot be written, every event passed to
\* log_error is nevertheless in the store and the policy was evaluated for it.
C15_ErrorLogFailureStillEvaluates ==
  "error_log" \in unwritable =>
    \A k \in DOMAIN history :
      /\ \E j \in DOMAIN recent_errors : recent_errors[j] = history[k].entry
      /\ history[k].evaluated

\* the number of events of the store of the given kind whose timestamp lies
\* in the closed interval [t - length, t]
InClosedWindow(kind, length, t) ==
  Cardinality({j \in DOMAIN recent_errors :
                 /\ recent_errors[j].type = kind
                 /\ recent_errors[j].timestamp >= t - length
                 /\ recent_errors[j].timestamp <= t})

\* the number of events of the store of the given kind whose timestamp is
\* exactly t - length
AtWindowStart(kind, length, t) ==
  Cardinality({j \in DOMAIN recent_errors :
                 recent_errors[j].type = kind /\ recent_errors[j].timestamp = t - length})

\* the last call evaluated the rule of its event's kind
RuleEvaluated ==
  /\ history # <<>>
  /\ history[Len(history)].evaluated
  /\ history[Len(history)].entry.severity # "critical"
  /\ history[Len(history)].entry.type \in DOMAIN escalation_triggers

\* C18 as stated: the window is the closed interval [now - window, now]; the
\* call escalates exactly when the events of the kind in the closed window,
\* one at exactly now - window included, reach the threshold.
C18_WindowIsClosed ==
  RuleEvaluated =>
    LET h == history[Len(history)]
        rule == escalation_triggers[h.entry.type]
    IN h.decision <=>
         InClosedWindow(h.entry.type, rule.time_window, h.at) >= rule.threshold

\* C18 amended: the window is open at its start, (now - window, now]; an
\* event of the kind at exactly now - window is not counted, like every
\* older one, and the call escalates exactly when the other events of the
\* closed window reach the threshold.
C18_WindowIsOpenAtStart ==
  RuleEvaluated =>
    LET h == history[Len(history)]
        rule == escalation_triggers[h.entry.type]
    IN h.decision <=>
         InClosedWindow(h.entry.type, rule.time_window, h.at)
           - AtWindowStart(h.entry.type, rule.time_window, h.at) >= rule.threshold

\* an event at exactly now - window would have completed the threshold, and
\* the call did not escalate
C18_Witness ==
  /\ RuleEvaluated
  /\ LET h == history[Len(history)]
         rule == escalation_triggers[h.entry.type]
     IN /\ AtWindowStart(h.entry.type, rule.time_window, h.at) >= 1
        /\ InClosedWindow(h.entry.type, rule.time_window, h.at) >= rule.threshold
        /\ ~h.decision

\* the loop body of the current iteration has ended
TickOver == monitor.pc \in {"sleep", "backoff"}

\* C13: when an iteration of the monitor loop has ended, every check of the
\* iteration has executed, whether or not a check (or the log_error call a
\* check made) raised.
C13_ChecksRunDespiteFailure ==
  TickOver => monitor.ran = AllChecks

LoopStates == {"off", "cpu", "memory", "agents", "conflicts", "sleep", "backoff"}

\* C14: the loop is never anywhere but in its body or in one of its two
\* sleeps; it is in the 30 s sleep exactly after an iteration that ran all
\* its checks and in the 60 s sleep after one that an exception cut short;
\* a next iteration begins only from a sleep, 30 s respectively 60 s after
\* the iteration ended; and from either sleep the next iteration eventually
\* begins.
C14_LoopNeverTerminates ==
  /\ [](monitor.pc \in LoopStates)
  /\ [](monitor.pc = "sleep" => monitor.ran = AllChecks)
  /\ [](monitor.pc = "backoff" => monitor.ran # AllChecks /\ monitor.failures >= 1)
  /\ [][(monitor.tick >= 1 /\ monitor'.tick # monitor.tick)
         => /\ monitor'.tick = monitor.tick + 1
            /\ monitor'.pc = "cpu"
            /\ \/ monitor.pc = "sleep" /\ now' = now + 30
               \/ monitor.pc = "backoff" /\ now' = now + 60]_vars
  /\ \A k \in 1..(MaxTicks - 1) :
       (monitor.tick = k /\ TickOver) ~> (monitor.tick = k + 1)

\* an iteration that began after the 60 s backoff has run all its checks
C14_Witness ==
  /\ monitor.tick >= 2
  /\ monitor.woke = 60
  /\ monitor.pc = "sleep"
  /\ monitor.failures >= 1

\* C16: every failure the monitor met so far (a probe that could not sample
\* its target, a log_error call that could not write a file) has a
\* low-severity event in the store.
C16_FailuresSurfacedAsLowEvents ==
  Cardinality({j \in DOMAIN recent_errors : recent_errors[j].severity = "low"})
    >= monitor.failures

\* the positions in the store of the events recorded in the current iteration
TickPositions == (monitor.first + 1)..Len(recent_errors)

\* C19: once the CPU check of an iteration has sampled the utilisation, the
\* iteration has recorded exactly one system_overload event, of severity
\* high and with exactly one escalated issue for it, if the utilisation is
\* above 90, and no system_overload event otherwise.
C19_OverloadEscalatedEachTick ==
  (monitor.pc \notin {"off", "cpu"} /\ "cpu" \notin host.broken) =>
    LET overloads == {j \in TickPositions : recent_errors[j].type = "system_overload"}
    IN IF host.cpu_percent > 90
       THEN /\ Cardinality(overloads) = 1
            /\ \A j \in overloads :
                 /\ recent_errors[j].severity = "high"
                 /\ Cardinality({k \in DOMAIN escalated_issues :
                       escalated_issues[k].original_error = recent_errors[j]}) = 1
       ELSE overloads = {}

\* the agents, in list order, for which `found` holds
AgentsInOrder(found(_)) == SelectSeq(Agents, found)

\* the kinds and agents of the events an iteration records for host h when
\* no check is cut short: CPU, memory, the dead agents in list order, the
\* agents with conflicts in list order
ExpectedEvents(h) ==
  LET dead == AgentsInOrder(LAMBDA a : h.pid[a] = "dead")
      conflicting == AgentsInOrder(LAMBDA a : h.worktree[a] = "conflicts")
  IN (IF h.cpu_percent > 90 THEN <<(<<"system_overload", None>>)>> ELSE <<>>)
       \o (IF h.memory_percent > 85 THEN <<(<<"resource_exhaustion", None>>)>> ELSE <<>>)
       \o [i \in DOMAIN dead |-> <<"agent_crash", dead[i]>>]
       \o [i \in DOMAIN conflicting |-> <<"file_conflict", conflicting[i]>>]

\* the kinds and agents of the events recorded in the current iteration
TickEvents ==
  [j \in 1..(Len(recent_errors) - monitor.first) |->
     <<recent_errors[monitor.first + j].type, recent_errors[monitor.first + j].agent_id>>]

\* C20: at every point of an iteration the events it has appended to the
\* store are, in order, the first of those the probe results determine
\* (CPU, memory, dead agents in list order, conflicts in list order), and all
\* of them when the iteration has reached its sleep.
C20_ChecksInFixedOrder ==
  monitor.pc # "off" =>
    /\ Len(TickEvents) <= Len(ExpectedEvents(host))
    /\ \A j \in DOMAIN TickEvents : TickEvents[j] = ExpectedEvents(host)[j]
    /\ monitor.pc = "sleep" => Len(TickEvents) = Len(ExpectedEvents(host))

\* the second iteration has recorded events of all four checks, of three
\* dead agents and two conflicting worktrees
C20_Witness ==
  /\ monitor.tick = 2
  /\ monitor.pc = "sleep"
  /\ Len(TickEvents) = 7
  /\ TickEvents[3][2] # TickEvents[4][2]
  /\ TickEvents[6][2] # TickEvents[7][2]

\* the number of events of `errors` of the given kind whose timestamp parses
\* and lies in the window of the given length that ends at time t
ParsableInWindow(errors, kind, length, t) ==
  Cardinality({j \in DOMAIN errors :
                 /\ errors[j].type = kind
                 /\ errors[j].timestamp # Malformed
                 /\ errors[j].timestamp > t - length
                 /\ errors[j].timestamp <= t})

\* C17: a log_error call never raises out of the policy evaluation, whatever
\* timestamps the store holds; for a non-critical event of a kind with a
\* rule it escalates exactly when the events of the kind whose timestamp
\* parses and lies in the window reach the threshold.
C17_MalformedTimestampExcluded ==
  [][Len(history') > Len(history) =>
       LET h == history'[Len(history')]
           kind == h.entry.type
       IN /\ ~h.raised
          /\ (h.entry.severity # "critical" /\ kind \in DOMAIN escalation_triggers)
               => (h.decision <=>
                     ParsableInWindow(recent_errors', kind,
                                      escalation_triggers[kind].time_window, h.at)
                       >= escalation_triggers[kind].threshold)]_vars

\* C21: the timestamps of the events in the store are non-decreasing in
\* buffer order, also when two callers record concurrently.
C21_StoreOrderedByTime ==
  \A i \in 1..(Len(recent_errors) - 1) :
    recent_errors[i].timestamp <= recent_errors[i + 1].timestamp

\* the monitor is inside the body of its loop
InTick == monitor.pc \in {"cpu", "memory", "agents", "conflicts"}

\* C22: every iteration of the loop that has begun ends, whatever its probes
\* do: a probe that does not return is cut off, and the loop reaches the
\* sleep from which the next iteration starts.
C22_HangingProbeCutOff ==
  \A k \in 1..MaxTicks :
    (monitor.tick = k /\ InTick) ~> (monitor.tick = k /\ TickOver)

\* C23: once the main thread has been told to stop, the monitor loop starts
\* no further iteration: it completes or abandons the one it is in.  (That
\* the loop then ends is not in question: the interpreter exits.)
C23_NoTickAfterStop ==
  [][monitor.main = "interrupted" => monitor'.tick = monitor.tick]_vars

\* the issue has been marked resolved
Resolved(issue) == "resolved" \in DOMAIN issue /\ issue.resolved

\* C24: an issue that clear_escalated_issue has resolved is resolved in the
\* persisted alert list as well: the alert made for it carries resolved = true.
C24_ResolveIsPersisted ==
  \A k \in DOMAIN escalated_issues :
    Resolved(escalated_issues[k]) =>
      \A j \in DOMAIN alert_file.alerts :
        alert_file.alerts[j].details.original_error = escalated_issues[k].original_error
          => Resolved(alert_file.alerts[j].details)

\* the external caller's call that returns in this step, if it is a call of
\* the given method
Returns(method) ==
  /\ threads'["external"].calls # threads["external"].calls
  /\ threads'["external"].result.call = method

\* C25: get_recent_errors(n), n >= 0, returns the last min(n, size) events
\* of the store in store order (none for n = 0) and leaves the store
\* unchanged.
C25_RecentReturnsLastN ==
  [][Returns("get_recent_errors") =>
       /\ threads'["external"].result.value
            = Suffix(recent_errors, threads'["external"].result.count)
       /\ recent_errors' = recent_errors]_vars

\* C26: get_suggested_actions does not fail and returns what the fixed table
\* holds for the kind alone: the single fallback entry for an unrecognized
\* kind or a kind without entry, a non-empty list for each of the seven
\* defined kinds.
C26_SuggestionsAreFixedLookup ==
  LET r == threads["external"].result
  IN r.call = "get_suggested_actions" =>
       /\ ~r.raised
       /\ r.value = get_suggested_actions([type |-> r.entry.type])
       /\ r.entry.type \in ErrorType => Len(r.value) >= 1
       /\ r.entry.type \notin
            {"agent_crash", "resource_exhaustion", "file_conflict",
             "dependency_failure", "system_overload"}
            => r.value = <<"Manual investigation required">>

\* the elements of `old` are kept in `new`, in order and unchanged, except
\* for at most one dropped from the front
KeptButOldest(old, new) ==
  \E drop \in {0, 1} :
    /\ Len(old) >= drop
    /\ Len(new) >= Len(old) - drop
    /\ \A i \in (1 + drop)..Len(old) : new[i - drop] = old[i]

\* C27: no step changes an event of the store (the store only appends and
\* evicts its oldest entry) or the event attached to an escalated issue; the
\* event attached to a new issue is the event just recorded; and a step that
\* evicts leaves every earlier issue as it was and every persisted alert as
\* it was (but for the oldest, when the 50 bound drops it).
C27_EventsImmutable ==
  [][/\ KeptButOldest(recent_errors, recent_errors')
     /\ \A k \in DOMAIN escalated_issues :
          /\ k \in DOMAIN escalated_issues'
          /\ escalated_issues'[k].original_error = escalated_issues[k].original_error
     /\ Len(escalated_issues') > Len(escalated_issues) =>
          escalated_issues'[Len(escalated_issues')].original_error
            = recent_errors'[Len(recent_errors')]
     /\ (Len(history') > Len(history) /\ Len(recent_errors') = Len(recent_errors)) =>
          /\ \A k \in DOMAIN escalated_issues : escalated_issues'[k] = escalated_issues[k]
          /\ KeptButOldest(alert_file.alerts, alert_file'.alerts)]_vars

\* the store has evicted events, and an issue made before has been resolved
C27_Witness ==
  /\ Len(history) > 100
  /\ Len(recent_errors) = 100
  /\ recent_errors[1] # history[1].entry
  /\ \E k \in DOMAIN escalated_issues : Resolved(escalated_issues[k])

\* C28: the snapshot attached to a new escalated issue has an entry for
\* every agent, and for an agent whose pid file is missing, cannot be read,
\* does not hold a process id or names a process that no longer exists the
\* entry is running = false with cpu and memory usage 0.
C28_SnapshotToleratesPidFiles ==
  [][Len(escalated_issues') > Len(escalated_issues) =>
       LET snapshot == escalated_issues'[Len(escalated_issues')].system_state
       IN /\ DOMAIN snapshot.agents = AgentIds
          /\ \A a \in AgentIds :
               host.pid[a] \in {"no_file", "unreadable", "garbage", "dead"} =>
                 snapshot.agents[a]
                   = [running |-> FALSE, cpu_percent |-> 0, memory_percent |-> 0]]_vars

\* an issue was escalated on a host with a pid file that does not parse, one
\* that cannot be read, one of a dead process and agents without pid file
C28_Witness ==
  /\ monitor.tick = 1
  /\ Len(escalated_issues) >= 1
  /\ \A status \in {"no_file", "unreadable", "garbage", "dead"} :
       \E a \in AgentIds :
         /\ host.pid[a] = status
         /\ ~escalated_issues[1].system_state.agents[a].running

\* C29: when an issue of a kind has been escalated before, a further
\* non-critical event of the kind, recorded while the store holds at least
\* `threshold` events of the kind in the window, is escalated again: the
\* newest escalated issue and the newest persisted alert are for that event.
C29_EscalationNotLatched ==
  RuleEvaluated =>
    LET h == history[Len(history)]
        kind == h.entry.type
        rule == escalation_triggers[kind]
    IN (/\ \E k \in DOMAIN escalated_issues :
             /\ escalated_issues[k].original_error.type = kind
             /\ escalated_issues[k].original_error # h.entry
        /\ InWindow(kind, rule.time_window, h.at) >= rule.threshold)
         => /\ h.decision
            /\ escalated_issues[Len(escalated_issues)].original_error = h.entry
            /\ alert_file.alerts[Len(alert_file.alerts)].details.original_error = h.entry
            /\ appended_alerts[Len(appended_alerts)].details.original_error = h.entry

\* the last two calls recorded non-critical events of one kind and both
\* escalated, each with its own issue and alert
C29_Witness ==
  /\ Len(history) >= 4
  /\ RuleEvaluated
  /\ history[Len(history)].decision
  /\ history[Len(history) - 1].decision
  /\ history[Len(history) - 1].entry.severity # "critical"
  /\ history[Len(history) - 1].entry.type = history[Len(history)].entry.type
  /\ Len(escalated_issues) >= 2
  /\ escalated_issues[Len(escalated_issues) - 1].original_error
       = history[Len(history) - 1].entry
  /\ Len(appended_alerts) >= 2

\* the positions in the store of the agent_crash events of the current
\* iteration
TickCrashes == {j \in TickPositions : recent_errors[j].type = "agent_crash"}

\* C30: in an iteration that began with no agent_crash event in the store,
\* the agent_crash events recorded are of pairwise different agents, and the
\* policy, where log_error came to evaluate it, decided to escalate exactly
\* for the third and every later one of them.
C30_CrashCountIgnoresAgent ==
  (/\ monitor.pc # "off"
   /\ \A j \in 1..monitor.first : recent_errors[j].type # "agent_crash") =>
    /\ \A i, j \in TickCrashes :
         i # j => recent_errors[i].agent_id # recent_errors[j].agent_id
    /\ \A j \in TickCrashes :
         (history[j].entry = recent_errors[j] /\ history[j].evaluated) =>
           (history[j].decision <=> Cardinality({i \in TickCrashes : i <= j}) >= 3)

\* six agents were found dead in one iteration: the first two events were
\* not escalated, the other four were
C30_Witness ==
  /\ monitor.pc = "conflicts"
  /\ Cardinality(TickCrashes) = 6
  /\ Cardinality({j \in TickCrashes : history[j].decision}) = 4
  /\ Len(escalated_issues) = 4
  /\ \A j \in TickCrashes : recent_errors[j].agent_id # None


\* C31: the alerts of the persisted list have pairwise different ids, and
\* the ids increase strictly along the list, whatever appends were made,
\* truncating ones included.
C31_PersistedIdsIncreasing ==
  \A i, j \in DOMAIN alert_file.alerts :
    i < j => alert_file.alerts[i].id < alert_file.alerts[j].id


\* C32: an append discards no persisted alert (fewer than 50 having been
\* appended, none is due for truncation): the alert persisted before the
\* threads' appends began is in every complete list the file holds
\* afterwards, also when an append read the file while the other writer had
\* truncated it.
C32_UnparsableFileKeepsAlerts ==
  (alert_file.complete /\ appended_alerts # <<>>) =>
    \E j \in DOMAIN alert_file.alerts : alert_file.alerts[j] = appended_alerts[1]


\* the escalated issues are those of the calls that decided to escalate, in
\* call order, and the persisted list holds the alerts of the last
\* min(that number, 50) of them, in the order of the issues
IssuesMirrored ==
  LET n == Len(Escalating)
      k == Len(alert_file.alerts)
  IN /\ Len(escalated_issues) = n
     /\ \A i \in 1..n : escalated_issues[i].original_error = Escalating[i].entry
     /\ k = Min(n, 50)
     /\ \A i \in 1..k : alert_file.alerts[i].details = escalated_issues[n - k + i]

\* C33: with one caller and no I/O failure, starting from empty stores, the
\* list of escalated issues never gets shorter, after every call its length
\* is the number of calls that decided to escalate, and the persisted alert
\* list holds the alerts of exactly the min(that number, 50) most recent
\* escalations, in the order of their escalated issues.
C33_IssuesAndAlertsMirrorEscalations ==
  [][/\ Len(escalated_issues') >= Len(escalated_issues)
     /\ IssuesMirrored']_vars

\* more than 50 calls escalated and others, in between, did not
C33_Witness ==
  /\ Len(escalated_issues) > 50
  /\ Len(alert_file.alerts) = 50
  /\ \E i \in DOMAIN history : ~history[i].decision
  /\ alert_file.alerts[1].details = escalated_issues[Len(escalated_issues) - 49]


\* issue `new` is issue `old` with resolved and resolved_at set, and nothing
\* else changed
ResolvedFrom(old, new) ==
  /\ DOMAIN new = DOMAIN old \cup {"resolved", "resolved_at"}
  /\ new.resolved = TRUE
  /\ new.resolved_at = now
  /\ \A f \in DOMAIN old \ {"resolved", "resolved_at"} : new[f] = old[f]

\* C34: clear_escalated_issue(i) with 0 <= i < len(escalated_issues) sets
\* resolved and resolved_at on the issue at 0-based position i and leaves
\* every other issue and the event store unchanged; with any other i,
\* negative or >= the length, it changes nothing.  (The rule table is a
\* constant of the model.)
C34_ClearTouchesOnlyValidIndex ==
  [][Returns("clear_escalated_issue") =>
       LET i == threads'["external"].result.issue_id
       IN /\ UNCHANGED <<recent_errors, error_log, escalation_log, alert_file>>
          /\ Len(escalated_issues') = Len(escalated_issues)
          /\ IF 0 <= i /\ i < Len(escalated_issues)
             THEN /\ ResolvedFrom(escalated_issues[i + 1], escalated_issues'[i + 1])
                  /\ \A j \in DOMAIN escalated_issues :
                       j # i + 1 => escalated_issues'[j] = escalated_issues[j]
             ELSE UNCHANGED escalated_issues]_vars

\* clear_escalated_issue(1) has resolved the second of several issues, and
\* the first is as it was
C34_Witness ==
  /\ threads["external"].result.call = "clear_escalated_issue"
  /\ threads["external"].result.issue_id = 1
  /\ Len(escalated_issues) >= 2
  /\ Resolved(escalated_issues[2])
  /\ ~Resolved(escalated_issues[1])


\* the default rules: threshold and window (seconds) of each kind that has one
RuleTable ==
  [agent_crash |-> [threshold |-> 3, time_window |-> 300],
   resource_exhaustion |-> [threshold |-> 2, time_window |-> 120],
   file_conflict |-> [threshold |-> 5, time_window |-> 600],
   system_overload |-> [threshold |-> 1, time_window |-> 60]]

CrossingOver ==
  \A c \in Callers : threads[c].pc = "idle" /\ threads[c].calls = CrossingCalls

\* the clock reading of the last policy evaluation made
LastEvaluation ==
  CHOOSE t \in {history[i].at : i \in DOMAIN history} :
    \A i \in DOMAIN history : history[i].at <= t

C37_AlertSeverityIsHigh ==
  /\ \A k \in DOMAIN appended_alerts :
       /\ appended_alerts[k].severity = "high"
       /\ appended_alerts[k].acknowledged = FALSE
  /\ \A j \in DOMAIN alert_file.alerts :
       /\ alert_file.alerts[j].severity = "high"
       /\ alert_file.alerts[j].acknowledged = FALSE

\* the alert store holds the alert of a critical event and that of a medium
\* event
C37_Witness ==
  \E i, j \in DOMAIN alert_file.alerts :
    /\ alert_file.alerts[i].details.original_error.severity = "critical"
    /\ alert_file.alerts[j].details.original_error.severity = "medium"
    /\ alert_file.alerts[i].severity = alert_file.alerts[j].severity


\* C38: with every file writable, a log_error call appends exactly one line
\* to the error log, the line of the event it recorded; no step of any
\* operation removes or changes a line, the eviction from the store
\* included; and with one caller the last min(k, 100) of the k lines are,
\* in order, the events the store holds.
C38_ErrorLogAppendOnlyMirror ==
  [][/\ IF Len(history') = Len(history) + 1
        THEN error_log' = Append(error_log, history'[Len(history')].entry)
        ELSE error_log' = error_log
     /\ Suffix(error_log', 100) = recent_errors']_vars

\* more than 100 events were recorded, the store has evicted the first
\* while the log still has its line, and the caller has since called
\* another method of the handler
C38_Witness ==
  /\ Len(error_log) > 100
  /\ Len(recent_errors) = 100
  /\ error_log[1] = history[1].entry
  /\ recent_errors[1] = history[Len(history) - 99].entry
  /\ threads["external"].calls >= 1

====
